---- MODULE Spec2Model ----
(***************************************************************************)
(* A model of tlkify.py: the TLK string table (class TLK: add, add_id,     *)
(* to_tlk, from_json) and the merge of JSON labels into a 2DA table        *)
(* (add_2da_labels, add_spell_labels).                                     *)
(***************************************************************************)
EXTENDS Integers, Sequences, FiniteSets, TLC

\* ------------------------------------------------------------------ bounds
NumTexts == 2
MaxId == 2
MaxEntries == 3
MaxPrior == 1
MaxOffset == 2
MaxBefore == 1
MaxWord == 3

TextPool == <<"a", "b", "c", "d", "e", "f">>
Texts == {TextPool[i] : i \in 1..NumTexts}
Ids == 0..MaxId

\* --------------------------------------------------------------- constants
\* TLK.OFFSET
OFFSET == 16777216

VARIABLES
    entries,    \* self.values['entries']: a list of {'id', 'text'}
    existing,   \* self.existing: text -> cached id
    blanks,     \* self.blanks, the members that are >= 0
    lowBlanks,  \* self.blanks, the members below 0: the interval <<lo, hi>>
    saved,      \* the JSON that to_tlk dumped, or NoFile
    hydrated,   \* TRUE once the table was loaded by from_json
    last,       \* the last call: its arguments and its result
    pre,        \* the table as it was before the last call
    pc,         \* where add_2da_labels / add_spell_labels stands
    name,       \* add_2da_labels: name
    offset,     \* add_2da_labels: spell_name_desc_offset
    df_2da,     \* add_2da_labels: df_2da
    df_json,    \* add_2da_labels: df_json
    df_ids,     \* add_spell_labels: df_ids
    todo,       \* the cells the running map / generator has still to visit
    calls,      \* the add and add_id calls of the merge so far, each with its cell
    given,      \* what the merge started from: both tables and the string table
    TEMP_DIR,   \* TRUE while the directory TLK.TEMP_DIR exists
    word,       \* __dynamic_plural__: text, a sequence of characters
    plural      \* __dynamic_plural__: what it returned for word

tableVars == <<entries, existing, blanks, lowBlanks, saved, hydrated, last, pre>>
mergeVars == <<pc, name, offset, df_2da, df_json, df_ids, todo, calls, given>>
pluralVars == <<word, plural>>
vars == <<tableVars, mergeVars, TEMP_DIR, pluralVars>>

\* ------------------------------------------------------------------ helpers
SetMax(S) == CHOOSE m \in S : \A n \in S : n <= m
SetMin(S) == CHOOSE m \in S : \A n \in S : m <= n

Values(f) == {f[t] : t \in DOMAIN f}
EntryIds(es) == {es[i].id : i \in DOMAIN es}
EntryTexts(es) == {es[i].text : i \in DOMAIN es}
EntrySet(es) == {es[i] : i \in DOMAIN es}

EmptyMap == [t \in {} |-> 0]
NoLow == <<0, -1>>
NoFile == [language |-> -1, entries |-> <<>>]

Table == [entries |-> entries, existing |-> existing,
          blanks |-> blanks, lowBlanks |-> lowBlanks, hydrated |-> hydrated]

\* ------------------------------------------------------------- class TLK
\* len(self)
len == Len(entries)

\* __add_item__: self.existing[text] = id + TLK.OFFSET
add_item_existing(id, text) ==
    [t \in DOMAIN existing \cup {text} |->
        IF t = text THEN id + OFFSET ELSE existing[t]]

\* __add_item__: self.values['entries'].append({'id': id, 'text': text})
add_item_entries(id, text) == Append(entries, [id |-> id, text |-> text])

\* `if self.blanks`
blanks_nonempty == blanks # {} \/ lowBlanks[1] <= lowBlanks[2]

\* The ids self.blanks.pop() may return. A set pops an arbitrary member; of
\* the members below 0 (an interval of up to OFFSET ids) the two ends stand
\* for the rest.
pop_choices ==
    blanks \cup (IF lowBlanks[1] <= lowBlanks[2]
                 THEN {lowBlanks[1], lowBlanks[2]} ELSE {})

\* self.blanks after pop() returned id
pop_blanks(id) == blanks \ {id}
pop_low(id) ==
    IF id \in blanks THEN lowBlanks
    ELSE IF id = lowBlanks[1] THEN <<lowBlanks[1] + 1, lowBlanks[2]>>
    ELSE <<lowBlanks[1], lowBlanks[2] - 1>>

\* add_id: max(self.existing.values()) - TLK.OFFSET if len(self.existing) > 0 else 0
max_value ==
    IF Cardinality(DOMAIN existing) > 0
    THEN SetMax(Values(existing)) - OFFSET
    ELSE 0

\* add_id: `if max_value and id <= max_value: raise ValueError`
add_id_raises(id) == max_value # 0 /\ id <= max_value

\* add_id: self.blanks.update(range(max_value + 1, id)), the members >= 0
update_blanks(id) ==
    blanks \cup {n \in 0..(id - 1) : n >= max_value + 1}

\* add_id: self.blanks.update(range(max_value + 1, id)), the members below 0.
\* max_value is below 0 only while the cache holds no id above those that
\* from_json loaded; the range then reaches up to -1 and covers what is left
\* of an earlier one
update_low(id) ==
    IF max_value + 1 <= -1 /\ id >= 0
    THEN IF lowBlanks[1] <= lowBlanks[2]
         THEN <<IF lowBlanks[1] < max_value + 1 THEN lowBlanks[1] ELSE max_value + 1, -1>>
         ELSE <<max_value + 1, -1>>
    ELSE lowBlanks

\* -------------------------------------------------------- tabular datasets
\* A cell of a DataFrame: free text, an integer, or NaN (a missing value)
Txt(s) == [tag |-> "text", text |-> s, ref |-> 0]
Ref(n) == [tag |-> "ref", text |-> "", ref |-> n]
NaN == [tag |-> "nan", text |-> "", ref |-> 0]
\* pd.notna
notna(v) == v # NaN

Range(seq) == {seq[i] : i \in DOMAIN seq}

RECURSIVE Ascend(_)
Ascend(S) == IF S = {} THEN <<>> ELSE <<SetMin(S)>> \o Ascend(S \ {SetMin(S)})

\* A DataFrame: its index, its columns in order, its cells
Frame(rows, cols, at) == [rows |-> rows, cols |-> cols, at |-> at]
NoFrame == Frame({}, <<>>, [cell \in {} |-> NaN])

\* The tables the merge is run on. read_2da: rows 0..n-1 of three columns,
\* 'Name' holding a reference of the base game, the others '****'
Rows2da == {0, 1}
Cols2da == <<"Name", "SpellDesc", "AltMessage">>
Input2da ==
    Frame(Rows2da, Cols2da,
          [cell \in Rows2da \X Range(Cols2da) |->
              IF cell[2] = "Name" THEN Ref(cell[1]) ELSE Txt("****")])

\* read_labels: label files of one or two rows (a row may be none of the
\* 2DA's), of these columns ('Note' is no column of the 2DA), each cell a
\* text or missing; the files of three columns have the rows of the 2DA
LabelTexts == {TextPool[1], TextPool[2]}
LabelRows == {{0}, {0, 1}, {1, 2}}
LabelCols == {<<"Name">>, <<"Note">>, <<"Name", "SpellDesc">>,
              <<"AltMessage", "Name">>, <<"Note", "AltMessage">>}
LabelColsSpells == {<<"Name", "SpellDesc", "AltMessage">>}
LabelCells == {NaN} \cup {Txt(t) : t \in LabelTexts}
Labels(rowsets, colsets) ==
    UNION {{Frame(rows, cols, at) : at \in [rows \X Range(cols) -> LabelCells]} :
              rows \in rowsets, cols \in colsets}
InputJson == Labels(LabelRows, LabelCols) \cup Labels({Rows2da}, LabelColsSpells)
Names == {"feat", "spells"}
Offsets == 0..MaxOffset

\* the columns of every table, in alphabetical order (Index.difference sorts)
Alphabetical == <<"AltMessage", "Name", "Note", "SpellDesc">>

\* A build mutates its table from the construction of the table up to
\* to_tlk (TlkBuilder.__init__: process_2das, then write_output, then exit)
building == last.op \in {"init", "from_json", "add", "add_id"} /\ ~last.raised

\* no merge is running
idle == pc = "idle"

InitMerge ==
    /\ pc = "idle"
    /\ name = ""
    /\ offset = 0
    /\ df_2da = NoFrame
    /\ df_json = NoFrame
    /\ df_ids = NoFrame
    /\ todo = <<>>
    /\ calls = <<>>
    /\ given = [df_2da |-> NoFrame, df_json |-> NoFrame, table |-> Table]

\* TLK.__init__: an empty table
InitTable ==
    /\ entries = <<>>
    /\ existing = EmptyMap
    /\ blanks = {}
    /\ lowBlanks = NoLow
    /\ hydrated = FALSE
    /\ pre = Table

\* no word was pluralized
InitPlural ==
    /\ word = <<>>
    /\ plural = <<>>

Init ==
    /\ InitTable
    /\ saved = NoFile
    /\ last = [op |-> "init", arg |-> 0, text |-> "", ret |-> 0, raised |-> FALSE]
    /\ TEMP_DIR = TRUE
    /\ InitMerge
    /\ InitPlural

\* TLK.add(text), with the id it allocates
add_new(text, id) ==
    /\ entries' = add_item_entries(id, text)
    /\ existing' = add_item_existing(id, text)
    /\ last' = [op |-> "add", arg |-> 0, text |-> text,
                ret |-> existing'[text], raised |-> FALSE]

\* add: `if text in self.existing`
cached_never(text) == FALSE
cached(text) == text \in DOMAIN existing

\* TLK.add(text)
add(text) ==
    /\ pre' = Table
    /\ UNCHANGED <<saved, hydrated>>
    /\ IF cached(text)
       THEN /\ last' = [op |-> "add", arg |-> 0, text |-> text,
                        ret |-> existing[text], raised |-> FALSE]
            /\ UNCHANGED <<entries, existing, blanks, lowBlanks>>
       ELSE IF blanks_nonempty
            THEN \E id \in pop_choices :
                    /\ blanks' = pop_blanks(id)
                    /\ lowBlanks' = pop_low(id)
                    /\ add_new(text, id)
            ELSE /\ add_new(text, len)
                 /\ UNCHANGED <<blanks, lowBlanks>>

\* TLK.add_id(id, text)
add_id(id, text) ==
    /\ pre' = Table
    /\ UNCHANGED <<saved, hydrated>>
    /\ IF add_id_raises(id)
       THEN /\ last' = [op |-> "add_id", arg |-> id, text |-> text,
                        ret |-> 0, raised |-> TRUE]
            /\ UNCHANGED <<entries, existing, blanks, lowBlanks>>
       ELSE /\ entries' = add_item_entries(id, text)
            /\ existing' = add_item_existing(id, text)
            /\ blanks' = update_blanks(id)
            /\ lowBlanks' = update_low(id)
            /\ last' = [op |-> "add_id", arg |-> id, text |-> text,
                        ret |-> existing'[text], raised |-> FALSE]

\* to_tlk: self.values['entries'].sort(key=lambda entry: entry['id']), a
\* stable sort: es with e put behind the entries whose id is not greater
RECURSIVE insert_sorted(_, _)
insert_sorted(es, e) ==
    IF es = <<>> THEN <<e>>
    ELSE IF es[Len(es)].id <= e.id THEN Append(es, e)
    ELSE Append(insert_sorted(SubSeq(es, 1, Len(es) - 1), e), es[Len(es)])

RECURSIVE sort_by_id(_)
sort_by_id(es) ==
    IF es = <<>> THEN <<>>
    ELSE insert_sorted(sort_by_id(SubSeq(es, 1, Len(es) - 1)), es[Len(es)])

\* to_tlk: json.dump(self.values, file)
dump(es) == [language |-> 0, entries |-> es]

\* TLK.to_tlk(tlk_path), the end of a build (TlkBuilder.write_output)
to_tlk ==
    /\ pre' = Table
    /\ entries' = sort_by_id(entries)
    /\ saved' = dump(entries')
    /\ last' = [op |-> "to_tlk", arg |-> 0, text |-> "", ret |-> 0, raised |-> FALSE]
    /\ UNCHANGED <<existing, blanks, lowBlanks, hydrated>>

\* from_json: {entry['text']: entry['id'] for entry in tlk.values['entries']},
\* where a later entry of the same text replaces an earlier one
load_existing(es) ==
    [t \in EntryTexts(es) |->
        es[SetMax({i \in DOMAIN es : es[i].text = t})].id]

\* from_json: {id for id in range(max(tlk.existing.values()))
\*             if id not in tlk.existing.values()}
load_blanks(ex) ==
    {id \in 0..(SetMax(Values(ex)) - 1) : id \notin Values(ex)}

\* TLK.from_json(json_path) (from_tlk hydrates the same way) of a prior
\* table; max() of no entries raises ValueError
from_json ==
    /\ pre' = Table
    /\ UNCHANGED saved
    /\ TEMP_DIR' = TRUE
    /\ IF saved.entries = <<>>
       THEN /\ last' = [op |-> "from_json", arg |-> 0, text |-> "",
                        ret |-> 0, raised |-> TRUE]
            /\ UNCHANGED <<entries, existing, blanks, lowBlanks, hydrated>>
       ELSE /\ entries' = saved.entries
            /\ existing' = load_existing(saved.entries)
            /\ blanks' = load_blanks(existing')
            /\ lowBlanks' = NoLow
            /\ hydrated' = TRUE
            /\ last' = [op |-> "from_json", arg |-> 0, text |-> "",
                        ret |-> 0, raised |-> FALSE]

\* ------------------------------------------------ the string table by itself
\* the model adds no entry to a table of MaxEntries entries
room(text) == cached(text) \/ len < MaxEntries

Add == \E text \in Texts :
    building /\ idle /\ room(text) /\ add(text) /\ UNCHANGED <<mergeVars, TEMP_DIR, pluralVars>>

AddId == \E id \in Ids, text \in Texts :
    /\ building /\ idle /\ (add_id_raises(id) \/ len < MaxEntries)
    /\ add_id(id, text) /\ UNCHANGED <<mergeVars, TEMP_DIR, pluralVars>>

ToTlk == building /\ idle /\ to_tlk /\ UNCHANGED <<mergeVars, TEMP_DIR, pluralVars>>

FromJson == last.op = "start" /\ from_json /\ UNCHANGED <<mergeVars, pluralVars>>

Next == Add \/ AddId \/ ToTlk

Spec == Init /\ [][Next]_vars

\* ------------------------------------------- a build seeded from a prior table
\* The tables a prior TLK holds: entries in ascending id order, no id twice
RECURSIVE PriorEntries(_)
PriorEntries(n) ==
    IF n = 0 THEN {<<>>}
    ELSE LET shorter == PriorEntries(n - 1)
         IN shorter \cup
            {Append(es, [id |-> id, text |-> text]) :
                es \in {s \in shorter : Len(s) = n - 1}, id \in Ids, text \in Texts}

Ascending(es) == \A i \in 1..(Len(es) - 1) : es[i].id < es[i + 1].id

PriorTables == {dump(es) : es \in {s \in PriorEntries(MaxPrior) : Ascending(s)}}

\* TlkBuilder.__init__: without a tlk_reference the table starts empty, with
\* one it is loaded from the prior table
InitPrior ==
    /\ InitTable
    /\ InitMerge
    /\ InitPlural
    /\ \/ /\ saved = NoFile
          /\ last = [op |-> "init", arg |-> 0, text |-> "", ret |-> 0, raised |-> FALSE]
          /\ TEMP_DIR = TRUE
       \/ /\ saved \in PriorTables
          /\ last = [op |-> "start", arg |-> 0, text |-> "", ret |-> 0, raised |-> FALSE]
          /\ TEMP_DIR = FALSE

NextPrior == FromJson \/ Add \/ AddId \/ ToTlk

SpecPrior == InitPrior /\ [][NextPrior]_vars

\* ---------------------------------- a build seeded from the table just written
\* The next build's TlkBuilder.__init__ loads what this build's to_tlk wrote
Reload == last.op = "to_tlk" /\ from_json /\ UNCHANGED <<mergeVars, pluralVars>>

NextRebuild == Add \/ AddId \/ ToTlk \/ Reload

SpecRebuild == Init /\ [][NextRebuild]_vars

\* ------------------------------------------------ one build, start to exit
\* TlkBuilder.__init__ before self.tlk is made: TLK.TEMP_DIR does not exist,
\* a tlk_reference may be given
InitBuild ==
    /\ InitTable
    /\ InitMerge
    /\ InitPlural
    /\ saved \in {NoFile} \cup PriorTables
    /\ last = [op |-> "start", arg |-> 0, text |-> "", ret |-> 0, raised |-> FALSE]
    /\ TEMP_DIR = FALSE

\* without a tlk_reference: self.tlk = TLK(...), whose __init__ runs
\* os.makedirs(TLK.TEMP_DIR, exist_ok=True)
tlk_new ==
    /\ last.op = "start"
    /\ saved = NoFile
    /\ TEMP_DIR' = TRUE
    /\ pre' = Table
    /\ last' = [op |-> "init", arg |-> 0, text |-> "", ret |-> 0, raised |-> FALSE]
    /\ UNCHANGED <<entries, existing, blanks, lowBlanks, saved, hydrated>>
    /\ UNCHANGED <<mergeVars, pluralVars>>

\* with a tlk_reference: the prior table is loaded (the TLK is made inside
\* from_json / from_tlk, before the values are read)
FromReference == saved # NoFile /\ FromJson

\* from_tlk: the conversion left no TEMP_FILE, FileNotFoundError('Failed to
\* convert TLK file.') is raised before a TLK is made
from_tlk_fails ==
    /\ last.op = "start"
    /\ saved # NoFile
    /\ pre' = Table
    /\ last' = [op |-> "from_tlk", arg |-> 0, text |-> "", ret |-> 0, raised |-> TRUE]
    /\ UNCHANGED <<entries, existing, blanks, lowBlanks, saved, hydrated>>
    /\ UNCHANGED <<mergeVars, TEMP_DIR, pluralVars>>

\* process_2das: read_2da meets a ParserError, prints it and calls exit(1)
read_2da_exits ==
    /\ building
    /\ idle
    /\ pre' = Table
    /\ last' = [op |-> "read_2da", arg |-> 0, text |-> "", ret |-> 0, raised |-> TRUE]
    /\ UNCHANGED <<entries, existing, blanks, lowBlanks, saved, hydrated>>
    /\ UNCHANGED <<mergeVars, TEMP_DIR, pluralVars>>

\* write_output: self.tlk.to_tlk(...), the 2DAs and the HAK are written, then
\* shutil.rmtree(TLK.TEMP_DIR); TlkBuilder.__init__ then calls exit(0)
write_output ==
    /\ building
    /\ idle
    /\ pre' = Table
    /\ entries' = sort_by_id(entries)
    /\ saved' = dump(entries')
    /\ TEMP_DIR' = FALSE
    /\ last' = [op |-> "write_output", arg |-> 0, text |-> "", ret |-> 0, raised |-> FALSE]
    /\ UNCHANGED <<existing, blanks, lowBlanks, hydrated>>
    /\ UNCHANGED <<mergeVars, pluralVars>>

\* the build is over: an exception or exit(1) ended it, or write_output
\* returned and exit(0) follows
exited == last.raised \/ last.op = "write_output"

NextBuild ==
    \/ tlk_new
    \/ FromReference
    \/ from_tlk_fails
    \/ Add
    \/ AddId
    \/ read_2da_exits
    \/ write_output

SpecBuild == InitBuild /\ [][NextBuild]_vars

\* ------------------------------------------------------------- the merge
ColSet(df) == Range(df.cols)
Cells(df) == df.rows \X ColSet(df)

\* add_2da_labels: df_json[df_json.columns.intersection(df_2da.columns)]
restrict(dj, d2) ==
    LET cols == SelectSeq(dj.cols, LAMBDA c : c \in ColSet(d2))
    IN Frame(dj.rows, cols, [cell \in dj.rows \X Range(cols) |-> dj.at[cell]])

\* DataFrame.empty
empty(df) == df.rows = {} \/ df.cols = <<>>

\* Series.map(self.add, na_action='ignore'): the cells of a column that the
\* function is called on, from the first row to the last
mapped_all(df, c) == SelectSeq(Ascend(df.rows), LAMBDA r : TRUE)
mapped(df, c) == SelectSeq(Ascend(df.rows), LAMBDA r : notna(df.at[<<r, c>>]))

\* the cells that a map over the columns cols visits, column by column
RECURSIVE map_order(_, _)
map_order(df, cols) ==
    IF cols = <<>> THEN <<>>
    ELSE LET c == Head(cols)
             rows == mapped(df, c)
         IN [i \in DOMAIN rows |-> <<rows[i], c>>] \o map_order(df, Tail(cols))

\* df_2da.update(other, overwrite=True): the cells of df_2da that other has a
\* value for take it, the others keep theirs
update_keep(d2, other) == d2
update(d2, other) ==
    Frame(d2.rows, d2.cols,
          [cell \in Cells(d2) |->
              IF cell \in Cells(other) /\ notna(other.at[cell])
              THEN other.at[cell] ELSE d2.at[cell]])

\* add_spell_labels: STATIC_COLUMNS
STATIC_COLUMNS(name_desc_offset) ==
    IF name_desc_offset > 0 THEN <<"Name", "SpellDesc">> ELSE <<>>

\* add_spell_labels: df_json.columns.difference(STATIC_COLUMNS), sorted
difference(cols, static) ==
    SelectSeq(Alphabetical, LAMBDA c : c \in Range(cols) /\ c \notin Range(static))

\* add_spell_labels: name_desc_offset + i + len(STATIC_COLUMNS) * df_ids.index,
\* i the position of the column in STATIC_COLUMNS, from 0
static_id_flat(name_desc_offset, i, row) == name_desc_offset + i + row
static_id(name_desc_offset, i, row) ==
    name_desc_offset + i + Len(STATIC_COLUMNS(name_desc_offset)) * row

\* add_spell_labels: df_ids, where df_json holds a value, and NaN elsewhere
static_ids(dj, name_desc_offset) ==
    LET static == STATIC_COLUMNS(name_desc_offset)
    IN Frame(dj.rows, static,
             [cell \in dj.rows \X Range(static) |->
                 LET i == CHOOSE k \in DOMAIN static : static[k] = cell[2]
                 IN IF notna(dj.at[cell])
                    THEN Ref(static_id(name_desc_offset, i - 1, cell[1]))
                    ELSE NaN])

\* add_spell_labels: the (row, column) pairs of the generator that calls
\* add_id: `for row in df_ids.itertuples() for column in STATIC_COLUMNS
\* if pd.notna(getattr(row, column))`
static_order_columns(ids, rows) == map_order(ids, ids.cols)
RECURSIVE static_order(_, _)
static_order(ids, rows) ==
    IF rows = <<>> THEN <<>>
    ELSE LET r == Head(rows)
             cols == SelectSeq(ids.cols, LAMBDA c : notna(ids.at[<<r, c>>]))
         IN [i \in DOMAIN cols |-> <<r, cols[i]>>] \o static_order(ids, Tail(rows))

\* df_ids + TLK.OFFSET
plus_offset(ids) ==
    Frame(ids.rows, ids.cols,
          [cell \in Cells(ids) |->
              IF notna(ids.at[cell]) THEN Ref(ids.at[cell].ref + OFFSET) ELSE NaN])

\* add_2da_labels(name, spell_name_desc_offset) up to the first call of add:
\* the tables are read, the label columns restricted to those of the 2DA
merge_start(nm, off, d2, dj) ==
    /\ pc = "idle"
    /\ building
    /\ name' = nm
    /\ offset' = off
    /\ given' = [df_2da |-> d2, df_json |-> dj, table |-> Table]
    /\ df_2da' = d2
    /\ df_json' = restrict(dj, d2)
    /\ df_ids' = NoFrame
    /\ calls' = <<>>
    /\ IF empty(df_json')
       THEN pc' = "done" /\ todo' = <<>>
       ELSE IF nm = "spells"
            THEN /\ pc' = "spell_map"
                 /\ todo' = map_order(df_json',
                                      difference(df_json'.cols, STATIC_COLUMNS(off)))
            ELSE /\ pc' = "map"
                 /\ todo' = map_order(df_json', df_json'.cols)
    /\ UNCHANGED <<tableVars, TEMP_DIR, pluralVars>>

\* one call of self.add by the map over df_json
map_step ==
    /\ pc \in {"map", "spell_map"}
    /\ todo # <<>>
    /\ add(df_json.at[Head(todo)].text)
    /\ df_json' = [df_json EXCEPT !.at[Head(todo)] = Ref(last'.ret)]
    /\ todo' = Tail(todo)
    /\ calls' = Append(calls, [cell |-> Head(todo), call |-> last'])
    /\ UNCHANGED <<pc, name, offset, df_2da, df_ids, given, TEMP_DIR, pluralVars>>

\* add_2da_labels: df_2da.update(df_json, overwrite=True); return df_2da
general_update ==
    /\ pc = "map"
    /\ todo = <<>>
    /\ df_2da' = update(df_2da, df_json)
    /\ pc' = "done"
    /\ UNCHANGED <<name, offset, df_json, df_ids, todo, calls, given>>
    /\ UNCHANGED <<tableVars, TEMP_DIR, pluralVars>>

\* add_spell_labels: df_2da.update(df_json, overwrite=True), then df_ids of
\* the static columns; df_json[column] of a static column that the labels
\* lack raises KeyError
spell_update ==
    /\ pc = "spell_map"
    /\ todo = <<>>
    /\ df_2da' = update(df_2da, df_json)
    /\ IF STATIC_COLUMNS(offset) = <<>>
       THEN pc' = "done" /\ UNCHANGED <<df_ids, todo>>
       ELSE IF ~(Range(STATIC_COLUMNS(offset)) \subseteq ColSet(df_json))
            THEN pc' = "failed" /\ UNCHANGED <<df_ids, todo>>
            ELSE /\ df_ids' = static_ids(df_json, offset)
                 /\ todo' = static_order(df_ids', Ascend(df_ids'.rows))
                 /\ pc' = "static"
    /\ UNCHANGED <<name, offset, df_json, calls, given>>
    /\ UNCHANGED <<tableVars, TEMP_DIR, pluralVars>>

\* one call of self.add_id by the generator; its ValueError ends the merge
static_step ==
    /\ pc = "static"
    /\ todo # <<>>
    /\ add_id(df_ids.at[Head(todo)].ref, df_json.at[Head(todo)].text)
    /\ calls' = Append(calls, [cell |-> Head(todo), call |-> last'])
    /\ IF last'.raised
       THEN pc' = "failed" /\ todo' = <<>>
       ELSE pc' = "static" /\ todo' = Tail(todo)
    /\ UNCHANGED <<name, offset, df_2da, df_json, df_ids, given, TEMP_DIR, pluralVars>>

\* add_spell_labels: df_2da.update(df_ids + TLK.OFFSET, overwrite=True)
static_update ==
    /\ pc = "static"
    /\ todo = <<>>
    /\ df_2da' = update(df_2da, plus_offset(df_ids))
    /\ pc' = "done"
    /\ UNCHANGED <<name, offset, df_json, df_ids, todo, calls, given>>
    /\ UNCHANGED <<tableVars, TEMP_DIR, pluralVars>>

\* the table before the merge: what the categories merged earlier left in it
Before ==
    \/ \E text \in LabelTexts :
        building /\ idle /\ len < MaxBefore /\ add(text) /\ UNCHANGED <<mergeVars, TEMP_DIR, pluralVars>>
    \/ \E id \in Ids, text \in LabelTexts :
        building /\ idle /\ len < MaxBefore /\ add_id(id, text) /\ UNCHANGED <<mergeVars, TEMP_DIR, pluralVars>>

MergeStart ==
    /\ idle
    /\ \E nm \in Names, off \in Offsets, dj \in InputJson :
        /\ (nm = "spells" \/ off = 0)
        /\ (nm = "spells" <=> dj.cols \in LabelColsSpells \cup {<<"Name">>})
        /\ merge_start(nm, off, Input2da, dj)

NextMerge ==
    \/ Before
    \/ MergeStart
    \/ map_step
    \/ general_update
    \/ spell_update
    \/ static_step
    \/ static_update

SpecMerge == Init /\ [][NextMerge]_vars

\* ------------------------------------------------------- __dynamic_plural__
\* A str is a sequence of characters. The nouns that are pluralized: every
\* word of two to MaxWord of these letters, and the examples of the source
Letters == {"a", "c", "e", "f", "h", "i", "l", "o", "s", "t", "x", "y", "z"}

RECURSIVE WordsOfLen(_)
WordsOfLen(n) ==
    IF n = 0 THEN {<<>>}
    ELSE {Append(w, c) : w \in WordsOfLen(n - 1), c \in Letters}

Examples == {<<"W", "i", "t", "c", "h">>, <<"W", "i", "f", "e">>,
             <<"E", "l", "f">>, <<"C", "l", "a", "s", "s">>,
             <<"D", "w", "a", "r", "f">>, <<"C", "i", "t", "y">>,
             <<"B", "o", "y">>}

Words == UNION {WordsOfLen(n) : n \in 2..MaxWord} \cup Examples

\* text[-2:]
last_two(text) ==
    IF Len(text) <= 2 THEN text ELSE SubSeq(text, Len(text) - 1, Len(text))
\* text[-1], text[-2]
from_end(text, n) == text[Len(text) + 1 - n]
\* text[:-n]
without_last(text, n) == SubSeq(text, 1, Len(text) - n)

\* `case 'ch', 'is', 'sh':` and `case 's', 'x', 'z', 'o':` are sequence
\* patterns (literals separated by commas, not by `|`): such a pattern
\* matches a subject that is a sequence of as many items, each matching its
\* literal, and a str is never taken as a sequence by a match statement
sequence_pattern(subject, literals) == FALSE
\* `case 'fe':` a literal pattern: the subject equals the literal
literal_pattern(subject, literal) == subject = literal

\* `text[-2] not in 'aeiou'`
not_in_aeiou(c) == c \notin {"a", "e", "i", "o", "u"}

\* TLK.__dynamic_plural__(text)
dynamic_plural(text) ==
    IF sequence_pattern(last_two(text), <<<<"c", "h">>, <<"i", "s">>, <<"s", "h">>>>)
    THEN text \o <<"e", "s">>
    ELSE IF literal_pattern(last_two(text), <<"f", "e">>)
    THEN without_last(text, 2) \o <<"v", "e", "s">>
    ELSE IF literal_pattern(last_two(text), <<"l", "f">>)
    THEN without_last(text, 1) \o <<"v", "e", "s">>
    ELSE IF sequence_pattern(from_end(text, 1), <<"s", "x", "z", "o">>)
    THEN text \o <<"e", "s">>
    ELSE IF literal_pattern(from_end(text, 1), "f")
    THEN without_last(text, 1) \o <<"v", "e", "s">>
    ELSE IF literal_pattern(from_end(text, 1), "y") /\ not_in_aeiou(from_end(text, 2))
    THEN without_last(text, 1) \o <<"i", "e", "s">>
    ELSE text \o <<"s">>

\* add_missing_labels: TLK.__dynamic_plural__(name) of the name of a row;
\* the function keeps no state, one call per behaviour shows all it does
Pluralize ==
    /\ word = <<>>
    /\ \E text \in Words :
        /\ word' = text
        /\ plural' = dynamic_plural(text)
        /\ UNCHANGED <<tableVars, mergeVars, TEMP_DIR>>

NextPlural == Pluralize

SpecPlural == Init /\ [][NextPlural]_vars

\* ------------------------------------------------------------------- claims
MaxEntryId(es) == SetMax(EntryIds(es))
Called(op) == last.op = op
Returned(op) == last.op = op /\ ~last.raised
Inserted == Len(entries) = Len(pre.entries) + 1

\* C1: no two entries of the table share an id (checked on tables built from
\* the empty table; the claim also covers hydrated tables).
C1_UniqueIds ==
    \A i, j \in DOMAIN entries : entries[i].id = entries[j].id => i = j

\* C2: in a table built from the empty table, every id in [0, max_id] is the id
\* of an entry or a member of blanks, and never both.
C2_EntryOrBlank ==
    entries # <<>> =>
        \A n \in 0..MaxEntryId(entries) : (n \in EntryIds(entries)) # (n \in blanks)

\* C3: add(t) right after add(t) returns the same id and changes neither
\* entries nor blanks; an add inserts at most one entry, and none for a text
\* that is present, and a present text stays present: the entry count grows by
\* at most one per distinct text.
C3_AddIdempotent ==
    [][/\ (Returned("add") /\ last'.op = "add" /\ last'.text = last.text) =>
            /\ last'.ret = last.ret
            /\ entries' = entries
            /\ blanks' = blanks
            /\ lowBlanks' = lowBlanks
       /\ last'.op = "add" =>
            /\ Len(entries') <= Len(entries) + 1
            /\ last'.text \in DOMAIN existing => entries' = entries
            /\ last'.text \in DOMAIN existing'
       /\ DOMAIN existing \subseteq DOMAIN existing']_vars

\* C3 witness: add of a text that was present, on a table of several entries.
C3_Witness ==
    /\ Returned("add")
    /\ last.text \in DOMAIN pre.existing
    /\ Len(entries) >= 2
    /\ last.ret = pre.existing[last.text]

\* C4: on a non-empty table, add_id with an id not above the largest entry id
\* raises and leaves entries, cache and blanks as they were.
C4_NonIncreasingRejected ==
    (Called("add_id") /\ pre.entries # <<>> /\ last.arg <= MaxEntryId(pre.entries)) =>
        /\ last.raised
        /\ Table = pre

\* C5: a successful add_id(id, text) on a table whose largest id is old_max
\* inserts (id, text) and adds to blanks exactly the integers strictly between
\* old_max and id; the ids already in blanks stay.
C5_ExactGap ==
    (Returned("add_id") /\ pre.entries # <<>> /\ last.arg > MaxEntryId(pre.entries)) =>
        /\ entries = Append(pre.entries, [id |-> last.arg, text |-> last.text])
        /\ blanks = pre.blanks \cup ((MaxEntryId(pre.entries) + 1)..(last.arg - 1))
        /\ lowBlanks = pre.lowBlanks

\* C6: add_id(n, x) on the empty table (n > 0) leaves blanks = {0..n-1}; an add
\* of a text not yet present takes its id from blanks while blanks is not
\* empty, and uses the entry count only once blanks is empty.
C6_GapReuse ==
    /\ (Returned("add_id") /\ pre.entries = <<>> /\ last.arg > 0) =>
            blanks = 0..(last.arg - 1)
    /\ (Returned("add") /\ Inserted /\ pre.blanks # {}) =>
            /\ last.ret - OFFSET \in pre.blanks
            /\ blanks = pre.blanks \ {last.ret - OFFSET}
    /\ (Returned("add") /\ Inserted /\ pre.blanks = {}) =>
            last.ret - OFFSET = Len(pre.entries)

\* C7: the id that add or add_id returns is the id of an entry holding the
\* text, plus OFFSET, also for a text loaded from a prior table.
C7_OffsetIds ==
    (Returned("add") \/ Returned("add_id")) =>
        \E i \in DOMAIN entries :
            /\ entries[i].text = last.text
            /\ last.ret = entries[i].id + OFFSET

\* C8: loading what to_tlk wrote of a table built from the empty table gives
\* the same set of entries and the same blanks, the blanks being the integers
\* of [0, largest id) that are no entry's id.
C8_RoundTrip ==
    (Returned("from_json") /\ ~pre.hydrated) =>
        /\ EntrySet(entries) = EntrySet(pre.entries)
        /\ blanks = pre.blanks
        /\ blanks = {n \in 0..(MaxEntryId(entries) - 1) : n \notin EntryIds(entries)}

\* a cell of the labels the merge started from that holds no value
Missing(cell) == cell \in Cells(given.df_json) /\ ~notna(given.df_json.at[cell])
\* a cell of the 2DA that the labels the merge started from hold a value for
Supplied(cell) ==
    /\ cell \in Cells(given.df_2da)
    /\ cell \in Cells(given.df_json)
    /\ notna(given.df_json.at[cell])
\* the texts of the label columns that are columns of the 2DA
SuppliedTexts ==
    {given.df_json.at[cell].text :
        cell \in {c \in Cells(given.df_json) :
                    c[2] \in ColSet(given.df_2da) /\ notna(given.df_json.at[c])}}

\* C9: a merge (general or spells, static or not) calls add and add_id for no
\* missing cell of the labels, and the merged 2DA keeps the value it had at
\* every missing cell.
C9_MissingKept ==
    /\ \A i \in DOMAIN calls : ~Missing(calls[i].cell)
    /\ pc = "done" =>
        \A cell \in Cells(given.df_2da) :
            Missing(cell) => df_2da.at[cell] = given.df_2da.at[cell]

\* C9 witness: a finished spells merge with static ids whose labels miss a
\* static cell and a cell of another column, and hold values for others.
C9_Witness ==
    /\ pc = "done"
    /\ name = "spells"
    /\ offset > 0
    /\ \E r \in Rows2da : Missing(<<r, "SpellDesc">>) /\ Supplied(<<r, "Name">>)
    /\ \E r \in Rows2da : Missing(<<r, "AltMessage">>)
    /\ \E r \in Rows2da : Supplied(<<r, "AltMessage">>)
    /\ \E i, j \in DOMAIN calls : calls[i].call.op = "add" /\ calls[j].call.op = "add_id"

\* C10: the merge of a general category replaces exactly the cells of the 2DA
\* that the labels hold a value for, each by the offset id that add returned
\* for its text, leaves every other cell as it was, and the string table gains
\* one entry per distinct text that was not in it.
C10_GeneralMerge ==
    (pc = "done" /\ name # "spells") =>
        /\ \A cell \in Cells(given.df_2da) :
            IF Supplied(cell)
            THEN \E i \in DOMAIN calls :
                    /\ calls[i].call.op = "add"
                    /\ calls[i].call.text = given.df_json.at[cell].text
                    /\ df_2da.at[cell] = Ref(calls[i].call.ret)
                    /\ [id |-> calls[i].call.ret - OFFSET,
                        text |-> calls[i].call.text] \in EntrySet(entries)
            ELSE df_2da.at[cell] = given.df_2da.at[cell]
        /\ Len(entries) - Len(given.table.entries)
             = Cardinality(SuppliedTexts \ DOMAIN given.table.existing)

\* C10 witness: labels with a 'Name' for row 0 and none for row 1: row 0 is
\* replaced, row 1 is not, and the table has one more entry.
C10_Witness ==
    /\ pc = "done"
    /\ name # "spells"
    /\ Supplied(<<0, "Name">>)
    /\ Missing(<<1, "Name">>)
    /\ df_2da.at[<<0, "Name">>] # given.df_2da.at[<<0, "Name">>]
    /\ df_2da.at[<<1, "Name">>] = given.df_2da.at[<<1, "Name">>]
    /\ Len(entries) = Len(given.table.entries) + 1
    /\ given.table.entries # <<>>

\* the rule table of the pluralization, first matching rule first
ends_in(text, suffix) ==
    Len(text) >= Len(suffix)
        /\ SubSeq(text, Len(text) - Len(suffix) + 1, Len(text)) = suffix
plural_rule(text) ==
    IF \E suffix \in {<<"c", "h">>, <<"i", "s">>, <<"s", "h">>} : ends_in(text, suffix)
    THEN text \o <<"e", "s">>
    ELSE IF ends_in(text, <<"f", "e">>)
    THEN SubSeq(text, 1, Len(text) - 2) \o <<"v", "e", "s">>
    ELSE IF ends_in(text, <<"l", "f">>)
    THEN SubSeq(text, 1, Len(text) - 1) \o <<"v", "e", "s">>
    ELSE IF text[Len(text)] \in {"s", "x", "z", "o"}
    THEN text \o <<"e", "s">>
    ELSE IF text[Len(text)] = "f"
    THEN SubSeq(text, 1, Len(text) - 1) \o <<"v", "e", "s">>
    ELSE IF text[Len(text)] = "y" /\ text[Len(text) - 1] \notin {"a", "e", "i", "o", "u"}
    THEN SubSeq(text, 1, Len(text) - 1) \o <<"i", "e", "s">>
    ELSE text \o <<"s">>

\* C11: for every word of at least two characters the plural is what the
\* first matching rule of the table gives: 'ch', 'is', 'sh' -> + 'es';
\* 'fe' -> 'ves'; 'lf' -> 'lves'; 's', 'x', 'z', 'o' -> + 'es'; 'f' -> 'ves';
\* 'y' after a non-vowel -> 'ies'; otherwise + 's'.
C11_PluralRules ==
    Len(word) >= 2 => plural = plural_rule(word)

\* a spells merge with static ids
StaticMerge == name = "spells" /\ offset > 0
\* the two designated columns, and the 0-based position of each
Designated == <<"Name", "SpellDesc">>
position(column) == (CHOOSE k \in DOMAIN Designated : Designated[k] = column) - 1
\* the cells of the designated columns that the labels hold a value for
PresentCells ==
    {cell \in Cells(given.df_json) :
        cell[2] \in Range(Designated) /\ notna(given.df_json.at[cell])}
\* the local id of a cell: offset + i + 2 * r
claimed_id(cell) == offset + position(cell[2]) + 2 * cell[1]
\* the add_id calls of the merge so far, and those of one cell
StaticCalls == {i \in DOMAIN calls : calls[i].call.op = "add_id"}
Reservations(cell) == {i \in StaticCalls : calls[i].cell = cell}
\* the call i reserved the claimed id of its cell for the text of its cell
ReservedAsClaimed(i) ==
    LET cell == calls[i].cell
        call == calls[i].call
    IN /\ ~call.raised
       /\ call.arg = claimed_id(cell)
       /\ call.text = given.df_json.at[cell].text
       /\ call.ret = claimed_id(cell) + OFFSET
       /\ [id |-> claimed_id(cell), text |-> call.text] \in EntrySet(entries)
\* the entries of the table before the first add_id of the pass
BeforePass ==
    SubSeq(entries, 1,
           Len(entries) - Cardinality({i \in StaticCalls : ~calls[i].call.raised}))
\* the labels hold both designated columns, and every id of the table before
\* the pass is below the first id to reserve
PassAdmitted ==
    /\ Range(Designated) \subseteq ColSet(given.df_json)
    /\ PresentCells # {} =>
        \/ BeforePass = <<>>
        \/ MaxEntryId(BeforePass) < SetMin({claimed_id(cell) : cell \in PresentCells})

RowMajor(i, j) ==
    \/ calls[i].cell[1] < calls[j].cell[1]
    \/ /\ calls[i].cell[1] = calls[j].cell[1]
       /\ position(calls[i].cell[2]) < position(calls[j].cell[2])

\* C13: the add_id calls of the static pass of spells come row by row in
\* ascending row order and, within a row, in designated-column order, their
\* ids strictly increasing; no add call follows an add_id call of the pass;
\* and when every id of the table before the pass is below the first
\* reserved id, no add_id call of the pass fails.
C13_StaticOrder ==
    StaticMerge =>
        /\ \A i, j \in StaticCalls :
            i < j => RowMajor(i, j) /\ calls[i].call.arg < calls[j].call.arg
        /\ \A i \in StaticCalls, j \in DOMAIN calls :
            i < j => calls[j].call.op = "add_id"
        /\ (/\ StaticCalls # {}
            /\ \/ BeforePass = <<>>
               \/ MaxEntryId(BeforePass) < calls[SetMin(StaticCalls)].call.arg) =>
                \A i \in StaticCalls : ~calls[i].call.raised

\* C13 witness: a finished pass of four add_id calls, after an add of the
\* same merge, on a table that held an entry.
C13_Witness ==
    /\ StaticMerge
    /\ pc = "done"
    /\ Cardinality(StaticCalls) = 4
    /\ \E i \in DOMAIN calls : calls[i].call.op = "add"
    /\ given.table.entries # <<>>
    /\ \A i \in StaticCalls : ~calls[i].call.raised

\* C14: once a build is over, on whichever path (write_output done, exit(1)
\* on a malformed 2DA, the ValueError of add_id, a failed conversion of the
\* prior table), the temporary directory is gone.
C14_TempDeleted ==
    exited => ~TEMP_DIR

\* C15: in a table built from the empty table by add and successful add_id
\* calls, no two entries hold the same text, and the cache maps each text of
\* the table, and nothing else, to the offset id of the entry holding it.
C15_TextDedup ==
    /\ \A i, j \in DOMAIN entries : entries[i].text = entries[j].text => i = j
    /\ DOMAIN existing = EntryTexts(entries)
    /\ \A i \in DOMAIN entries : existing[entries[i].text] = entries[i].id + OFFSET

====
